---- MODULE Spec2Model ----
(***************************************************************************)
(* The scaling-meter engine of tcgame (src/lib/scaling-meter.ts): a pure   *)
(* pipeline  stepUpdate = rubber-band -> Unluck -> applyChoice ->          *)
(* computeEffective -> computeMeter, driven by a per-step mulberry32       *)
(* generator.  Numbers that the program keeps as doubles are kept here as  *)
(* exact integers: a 32-bit word is a pair <<hi, lo>> of 16-bit halves, a  *)
(* draw rng() is the word u standing for u / 2^32, and the effective state *)
(* and raw score are fixed-point values.                                   *)
(***************************************************************************)
EXTENDS Integers, Naturals, Sequences, FiniteSets, TLC

(***************************************************************************)
(* Bounds of the model.                                                    *)
(***************************************************************************)
\* number of stepUpdate calls explored in one run
MaxSteps == 4

(***************************************************************************)
(* 32-bit integer arithmetic of mulberry32.                                *)
(***************************************************************************)
Half == 65536

\* a non-negative number below 2^31 as a 32-bit word
ToWord(n) == << n \div Half, n % Half >>

RECURSIVE Pow2(_)
Pow2(k) == IF k = 0 THEN 1 ELSE 2 * Pow2(k - 1)

RECURSIVE XorBits(_, _, _)
XorBits(a, b, n) ==
  IF n = 0 THEN 0
  ELSE (((a % 2) + (b % 2)) % 2) + 2 * XorBits(a \div 2, b \div 2, n - 1)

RECURSIVE OrBits(_, _, _)
OrBits(a, b, n) ==
  IF n = 0 THEN 0
  ELSE (IF a % 2 = 1 \/ b % 2 = 1 THEN 1 ELSE 0) + 2 * OrBits(a \div 2, b \div 2, n - 1)

\* the exclusive or of two bytes, tabulated
XorByte == [a \in 0..255 |-> [b \in 0..255 |-> XorBits(a, b, 8)]]

Xor16(a, b) == (XorByte[a \div 256][b \div 256] * 256) + XorByte[a % 256][b % 256]

\* a ^ b
Xor32(a, b) == << Xor16(a[1], b[1]), Xor16(a[2], b[2]) >>

\* a | k for a small constant k (k < 2^8)
OrSmall(a, k) == << a[1], ((a[2] \div 256) * 256) + OrBits(a[2] % 256, k, 8) >>

\* a >>> k, 0 < k < 16
Shr32(a, k) ==
  << a[1] \div Pow2(k), ((a[1] % Pow2(k)) * Pow2(16 - k)) + (a[2] \div Pow2(k)) >>

\* a + b | 0 (the sum modulo 2^32)
Add32(a, b) ==
  LET lo == a[2] + b[2]
  IN  << (a[1] + b[1] + (lo \div Half)) % Half, lo % Half >>

\* the full product of two 16-bit halves, as a word
Mul16(x, y) ==
  LET p  == (x \div 256) * y
      q  == (x % 256) * y
      lo == ((p % 256) * 256) + (q % Half)
  IN  << (p \div 256) + (q \div Half) + (lo \div Half), lo % Half >>

\* Math.imul(a, b): the low 32 bits of the product
imul(a, b) ==
  LET ll == Mul16(a[2], b[2])
  IN  << (ll[1] + Mul16(a[1], b[2])[2] + Mul16(a[2], b[1])[2]) % Half, ll[2] >>

\* 0x6D2B79F5
Increment == << 27947, 31221 >>

\* let t = Math.imul(state ^ state >>> 15, state | 1)
mixFirst(s) == imul(Xor32(s, Shr32(s, 15)), OrSmall(s, 1))

\* t ^= t + Math.imul(t ^ t >>> 7, t | 61)
mixSecond(t) == Xor32(t, Add32(t, imul(Xor32(t, Shr32(t, 7)), OrSmall(t, 61))))

\* (t ^ t >>> 14) >>> 0
mixLast(t) == Xor32(t, Shr32(t, 14))

\* the closure state s and the value returned from it
drawnFrom(s) == [state |-> s, value |-> mixLast(mixSecond(mixFirst(s)))]

\* One call of the generator closure: the new closure state and the value
\* returned, u standing for the float u / 4294967296.
mulberry32Next(state) == drawnFrom(Add32(state, Increment))

\* mulberry32(seed): the closure state before the first call
mulberry32(seed) == ToWord(seed)


(***************************************************************************)
(* State, Delta and configuration.                                         *)
(***************************************************************************)
Delta(r, u, s, c, i) == [R |-> r, U |-> u, S |-> s, C |-> c, I |-> i]

EMPTY_DELTA == Delta(0, 0, 0, 0, 0)

\* The fixed-point unit of the raw score: weights are kept in twentieths
\* and effective values in millionths, so raw is in 1 / RawUnit.
RawUnit == 20000000

\* MeterConfig.  weights in twentieths (0.30 = 6/20); mu, sigma, bonus,
\* range and threshold are the integers of the source.
DEFAULT_CONFIG ==
  [ weights          |-> [R |-> 6, U |-> 5, S |-> 4, C |-> 3, I |-> 2],
    sigmoid          |-> [mu |-> -4, sigma |-> 11],
    momentumBonus    |-> 3,
    randomnessRange  |-> << -5, 5 >>,
    rubberBand       |-> [threshold |-> 30, bonus |-> 2] ]

\* The Unluck part of MeterConfig: probabilities, factors and reductions
\* in tenths (probability 0.10 = 1, factorRange [0.4, 0.7] = <<4, 7>>).
DEFAULT_UNLUCK ==
  [ unluck        |-> [probability |-> 1, factorRange |-> << 4, 7 >>],
    specialUnluck |-> [enabled |-> TRUE, step |-> 4, choice |-> "B",
                       probability |-> 10, scalingGainsReduction |-> 5,
                       usersReduction |-> 5, customersReduction |-> 7,
                       investorsReduction |-> 4] ]

(***************************************************************************)
(* applyChoice, computeEffective, sigmoid.                                 *)
(***************************************************************************)
applyChoiceSwapped(state, delta) ==
  [ R |-> state.R + delta.R,
    U |-> state.U + delta.U,
    S |-> state.S + delta.C,
    C |-> state.C + delta.S,
    I |-> state.I + delta.I ]

applyChoice(state, delta) ==
  [ R |-> state.R + delta.R,
    U |-> state.U + delta.U,
    S |-> state.S + delta.S,
    C |-> state.C + delta.C,
    I |-> state.I + delta.I ]

\* Math.pow(x, 0.9) for x = 0, 1, 2, ... in millionths (entry x + 1)
PowTable ==
  << 0, 1000000, 1866066, 2687875, 3482202, 4256700, 5015753, 5762199, 6498019, 7224674,
  7943282, 8654728, 9359726, 10058866, 10752643, 11441478, 12125733, 12805721, 13481718, 14153969,
  14822689, 15488072, 16150293, 16809510, 17465866, 18119492, 18770507, 19419024, 20065142, 20708956,
  21350553, 21990015, 22627417, 23262830, 23896320, 24527949, 25157776, 25785856, 26412240, 27036978,
  27660116, 28281697, 28901765, 29520357, 30137513, 30753267, 31367655, 31980708, 32592458, 33202935,
  33812167, 34420182, 35027005, 35632663, 36237179, 36840577, 37442878, 38044105, 38644278, 39243417,
  39841541, 40438669, 41034819, 41630008, 42224253, 42817570, 43409976, 44001484, 44592110, 45181868,
  45770772, 46358835, 46946071, 47532491, 48118109, 48702935, 49286983, 49870262, 50452785, 51034561,
  51615601, 52195915, 52775513, 53354405, 53932600, 54510107, 55086935, 55663092, 56238588, 56813430,
  57387626, 57961185, 58534113, 59106420, 59678111, 60249194, 60819677, 61389566, 61958867, 62527588,
  63095734, 63663313, 64230330, 64796792, 65362703, 65928071, 66492901, 67057198, 67620967, 68184216,
  68746947, 69309167, 69870881, 70432094, 70992810, 71553034, 72112772, 72672027, 73230805, 73789109,
  74346944, 74904314, 75461224, 76017678, 76573680, 77129233, 77684342, 78239010, 78793242 >>

Max(a, b) == IF a > b THEN a ELSE b
Min(a, b) == IF a < b THEN a ELSE b

\* Math.pow(Math.max(0, x), diminishingReturns)
PowDiminishing(x) == PowTable[Max(0, x) + 1]

computeEffective(state, config) ==
  [ R |-> PowDiminishing(state.R),
    U |-> PowDiminishing(state.U),
    S |-> PowDiminishing(state.S),
    C |-> PowDiminishing(state.C),
    I |-> PowDiminishing(state.I) ]

\* Entry m is the least z (in 1 / RawUnit) with 100 * sigmoid(z) >= m - 0.5,
\* that is ln((m - 0.5) / (100.5 - m)): the points where
\* Math.round(100 * sigmoid(z)) steps from m - 1 to m.
SigmoidCut ==
  << -105866096, -83691829, -73271233, -66335601, -61100977, -56877035, -53323185, -50246112, -47525456, -45081161,
  -42857267, -40813110, -38918203, -37149095, -35487355, -33918230, -32429725, -31011948, -29656646, -28356854,
  -27106643, -25900914, -24735253, -23605806, -22509191, -21442413, -20402813, -19388011, -18395867, -17424449,
  -16472001, -15536924, -14617750, -13713130, -12821816, -11942651, -11074553, -10216512, -9367579, -8526854,
  -7693487, -6866667, -6045617, -5229594, -4417877, -3609768, -2804587, -2001669, -1200360, -400013,
  400013, 1200360, 2001669, 2804587, 3609768, 4417877, 5229594, 6045617, 6866667, 7693487,
  8526854, 9367579, 10216512, 11074553, 11942651, 12821816, 13713130, 14617750, 15536924, 16472001,
  17424449, 18395867, 19388011, 20402813, 21442413, 22509191, 23605806, 24735253, 25900914, 27106643,
  28356854, 29656646, 31011948, 32429725, 33918230, 35487355, 37149095, 38918203, 40813110, 42857267,
  45081161, 47525456, 50246112, 53323185, 56877035, 61100977, 66335601, 73271233, 83691829, 105866096 >>

\* Math.round(100 * sigmoid((raw - mu) / sigma))
sigmoidRound(raw, mu, sigma) ==
  Cardinality({ m \in 1..100 : sigma * SigmoidCut[m] <= raw - (mu * RawUnit) })


(***************************************************************************)
(* computeMeter and applyRubberBand.                                       *)
(***************************************************************************)
\* Math.round(rng() * (maxRand - minRand) + minRand) for the draw u
randomnessOf(u, minRand, maxRand) ==
  LET k == maxRand - minRand
  IN  (((u[1] * k) + ((u[2] * k) \div Half) + 32768) \div Half) + minRand

\* weights.R * effective.R + ... + weights.I * effective.I
rawScore(effective, weights) ==
  (weights.R * effective.R) + (weights.U * effective.U)
    + (weights.S * effective.S) + (weights.C * effective.C)
    + (weights.I * effective.I)

momentumOfAfterFirstMeter(normalized, lastMeter, config) ==
  IF normalized > lastMeter /\ lastMeter > 0 THEN config.momentumBonus ELSE 0

momentumOfInclusive(normalized, lastMeter, config) ==
  IF normalized >= lastMeter THEN config.momentumBonus ELSE 0

\* if (meter > lastMeter) { momentum = momentumBonus; meter += momentum; }
momentumOf(normalized, lastMeter, config) ==
  IF normalized > lastMeter THEN config.momentumBonus ELSE 0

\* the randomness term made of the draw, after the draws before it
randomnessDrawn(before, draw, config) ==
  [ randomness |-> randomnessOf(draw.value, config.randomnessRange[1],
                                config.randomnessRange[2]),
    rng        |-> draw.state,
    draws      |-> Append(before, [kind |-> "randomness", state |-> draw.state]) ]

drawRandomnessTwice(rng, config) ==
  randomnessDrawn(<< [kind |-> "randomness", state |-> mulberry32Next(rng).state] >>,
                  mulberry32Next(mulberry32Next(rng).state), config)

\* const randomness = Math.round(rng() * (maxRand - minRand) + minRand):
\* the value, the closure state after the draw and the state drawn from
drawRandomness(rng, config) ==
  randomnessDrawn(<< >>, mulberry32Next(rng), config)

clampMeterFloorOnly(meter) == Max(0, meter)

\* meter = Math.max(0, Math.min(100, meter))
clampMeter(meter) == Max(0, Min(100, meter))

meterResultFlaggingAtThreshold(effective, raw, momentum, random, meter, config) ==
  [ result |-> [ meter      |-> meter,
                 raw        |-> raw,
                 effective  |-> effective,
                 momentum   |-> momentum,
                 randomness |-> random.randomness,
                 rubberBand |-> meter <= config.rubberBand.threshold ],
    rng    |-> random.rng,
    draws  |-> random.draws ]

\* The MeterResult, the generator closure's state after the call and the
\* generator states the call drew from, in order.
meterResult(effective, raw, momentum, random, meter, config) ==
  [ result |-> [ meter      |-> meter,
                 raw        |-> raw,
                 effective  |-> effective,
                 momentum   |-> momentum,
                 randomness |-> random.randomness,
                 rubberBand |-> meter < config.rubberBand.threshold ],
    rng    |-> random.rng,
    draws  |-> random.draws ]

\* from the normalized score on: momentum, randomness, clamp
meterFrom(effective, raw, normalized, lastMeter, random, config) ==
  meterResult(effective, raw, momentumOf(normalized, lastMeter, config), random,
              clampMeter(normalized + momentumOf(normalized, lastMeter, config)
                           + random.randomness),
              config)

meterOf(effective, raw, lastMeter, rng, config) ==
  meterFrom(effective, raw,
            sigmoidRound(raw, config.sigmoid.mu, config.sigmoid.sigma),
            lastMeter, drawRandomness(rng, config), config)

computeMeter(effective, lastMeter, rng, config) ==
  meterOf(effective, rawScore(effective, config.weights), lastMeter, rng, config)

applyRubberBandStrict(state, config) ==
  IF state.S < state.C
  THEN [state EXCEPT !.S = state.S + config.rubberBand.bonus]
  ELSE [state EXCEPT !.C = state.C + config.rubberBand.bonus]

applyRubberBand(state, config) ==
  IF state.S <= state.C
  THEN [state EXCEPT !.S = state.S + config.rubberBand.bonus]
  ELSE [state EXCEPT !.C = state.C + config.rubberBand.bonus]

applyRubberBandArgumentInPlace(state, config) == applyRubberBand(state, config)

\* What applyRubberBand leaves in the object it was given: the spread
\* { ...state, S: ... } builds a new object and writes nothing to state.
applyRubberBandArgument(state, config) == state

(***************************************************************************)
(* Unluck and Special Unluck.                                              *)
(***************************************************************************)
\* rng() < probability, for the draw u and a probability in tenths
drawBelow(u, probability) ==
  ((u[1] * 10) + ((u[2] * 10) \div Half)) < probability * Half

\* min + rng() * (max - min) for the draw u and a range in tenths: the exact
\* factor in units of 1 / (10 * 2^32), as three base-65536 digits
\* << tenths, 2^-16 tenths, 2^-32 tenths >>.
luckFactorOf(u, factorRange) ==
  LET k == factorRange[2] - factorRange[1]
      a == u[2] * k
      b == (u[1] * k) + (a \div Half)
  IN  << factorRange[1] + (b \div Half), b % Half, a % Half >>

\* luckFactor: null
NoFactor == << >>

\* Math.round(n * factor / (den / 10)) for an exact factor (den = 10 scales
\* by the factor alone, den = 100 by the factor and a reduction in tenths)
roundScaled(n, factor, den) ==
  ((n * factor[1]) + (den \div 2)
     + (((n * factor[2]) + ((n * factor[3]) \div Half)) \div Half)) \div den

scaleGainEverySign(d, factor, reduction, den) ==
  roundScaled(d * reduction, factor, den)

\* one delta component under Unluck: only strictly positive gains shrink
scaleGain(d, factor, reduction, den) ==
  IF d > 0 THEN roundScaled(d * reduction, factor, den) ELSE d

scaleDelta(delta, factor, reduction, den) ==
  [ R |-> scaleGain(delta.R, factor, reduction, den),
    U |-> scaleGain(delta.U, factor, reduction, den),
    S |-> scaleGain(delta.S, factor, reduction, den),
    C |-> scaleGain(delta.C, factor, reduction, den),
    I |-> scaleGain(delta.I, factor, reduction, den) ]

\* The Unluck roll: one trigger draw, and a factor draw only if it fired.
unluckFired(trigger, pick, config) ==
  [ applied |-> TRUE,
    factor  |-> luckFactorOf(pick.value, config.unluck.factorRange),
    rng     |-> pick.state,
    draws   |-> << [kind |-> "unluckTrigger", state |-> trigger.state],
                   [kind |-> "unluckFactor", state |-> pick.state] >> ]

unluckTriggered(trigger, config) ==
  IF drawBelow(trigger.value, config.unluck.probability)
  THEN unluckFired(trigger, mulberry32Next(trigger.state), config)
  ELSE [ applied |-> FALSE,
         factor  |-> NoFactor,
         rng     |-> trigger.state,
         draws   |-> << [kind |-> "unluckTrigger", state |-> trigger.state] >> ]

rollUnluck(rng, config) == unluckTriggered(mulberry32Next(rng), config)

specialEligibleAnyStep(unluckApplied, stepCount, chosenOption, config) ==
  /\ config.specialUnluck.enabled
  /\ unluckApplied
  /\ chosenOption = config.specialUnluck.choice

\* Special Unluck is rolled only on top of a fired Unluck, on the configured
\* 1-indexed step and option.
specialEligible(unluckApplied, stepCount, chosenOption, config) ==
  /\ config.specialUnluck.enabled
  /\ unluckApplied
  /\ stepCount + 1 = config.specialUnluck.step
  /\ chosenOption = config.specialUnluck.choice

specialRolled(roll, config) ==
  [ applied |-> drawBelow(roll.value, config.specialUnluck.probability),
    rng     |-> roll.state,
    draws   |-> << [kind |-> "specialUnluck", state |-> roll.state] >> ]

rollSpecialUnluck(unluckApplied, stepCount, chosenOption, rng, config) ==
  IF specialEligible(unluckApplied, stepCount, chosenOption, config)
  THEN specialRolled(mulberry32Next(rng), config)
  ELSE [ applied |-> FALSE, rng |-> rng, draws |-> << >> ]

\* Math.round(x * (1 - reduction)) for a reduction in tenths
haircut(x, reduction) == ((x * (10 - reduction)) + 5) \div 10

applySpecialHaircutEveryTotal(state, config) ==
  [ R |-> haircut(state.R, config.specialUnluck.scalingGainsReduction),
    U |-> haircut(state.U, config.specialUnluck.usersReduction),
    S |-> haircut(state.S, config.specialUnluck.scalingGainsReduction),
    C |-> haircut(state.C, config.specialUnluck.customersReduction),
    I |-> haircut(state.I, config.specialUnluck.investorsReduction) ]

\* The parameter haircuts of Special Unluck on the post-delta state.
applySpecialHaircut(state, config) ==
  [ R |-> state.R,
    U |-> haircut(state.U, config.specialUnluck.usersReduction),
    S |-> state.S,
    C |-> haircut(state.C, config.specialUnluck.customersReduction),
    I |-> haircut(state.I, config.specialUnluck.investorsReduction) ]


(***************************************************************************)
(* The program state.                                                      *)
(***************************************************************************)
VARIABLES
  run,      \* the RunState of the run being played
  replay,   \* the RunState of a second chain replaying the same choices
  choices,  \* the (delta, option) choices applied to run so far, in order
  results,  \* the MeterResults the calls on run returned, in call order
  cfg,      \* the MeterConfig handed to every call
  gen,      \* closure state of the generator made by the latest stepUpdate
  last,     \* the latest stepUpdate call: its argument, inputs and outcome
  storage,  \* the localStorage item tcgame_run_state: absent or a JSON text
  mounted,  \* how the session of the second chain got its state on mount
  panel,    \* what the Scaling Meter panel shows: a tier or the insights
  flow,     \* the page: the screen shown and the step of the GameState
  loading   \* loadContentPackFromString: its arguments, then its outcome

vars ==
  << run, replay, choices, results, cfg, gen, last, storage, mounted, panel, flow,
     loading >>

\* no generator has been created yet
NoGenerator == << >>

\* no call has been made yet
NoCall == [called |-> FALSE]

\* localStorage.getItem returns null
NoItem == << >>

\* the session started from initializeGameState and has loaded nothing
Fresh == [how |-> "fresh"]

\* the Scaling Meter panel has rendered nothing yet
NoPanel == [shown |-> "nothing"]

\* no content pack is being loaded from a string
NoLoad == [phase |-> "none"]

\* useState<GameState>('start') of the page and currentStep: 1 of
\* initializeGameState; no event has been handled yet
Booted == [gameState |-> "start", currentStep |-> 1, event |-> "none"]

(***************************************************************************)
(* stepUpdate and initializeRunState.                                      *)
(***************************************************************************)
\* the closure state the i-th call of a generator draws from
RECURSIVE DrawState(_, _)
DrawState(start, i) ==
  IF i = 0 THEN start ELSE Add32(DrawState(start, i - 1), Increment)

stepGeneratorAdvancing(runState) ==
  DrawState(mulberry32(runState.seed), runState.stepCount)

stepGeneratorShared(runState) ==
  IF gen = NoGenerator THEN mulberry32(runState.seed + runState.stepCount) ELSE gen

\* const rng = mulberry32(runState.seed + runState.stepCount)
stepGenerator(runState) == mulberry32(runState.seed + runState.stepCount)

appendHistoryFront(history, result) == << result >> \o history

appendHistoryRewriting(history, result) ==
  [ i \in 1..(Len(history) + 1) |->
      IF i <= Len(history) THEN [history[i] EXCEPT !.rubberBand = FALSE]
                           ELSE result ]

\* history: [...runState.history, result]
appendHistory(history, result) == Append(history, result)

\* What [...runState.history, result] leaves in runState.history: the spread
\* builds a new array, the argument's array is not written.
historyArgument(history, result) == history

\* history.length > 0 && history[history.length - 1].rubberBand
catchUpDue(runState) ==
  Len(runState.history) > 0 /\ runState.history[Len(runState.history)].rubberBand

currentStateOfCatchingUpAlways(runState, config) ==
  applyRubberBand(runState.state, config)

\* let currentState = runState.state, after the rubber-band catch-up if due
currentStateOf(runState, config) ==
  IF catchUpDue(runState) THEN applyRubberBand(runState.state, config)
                          ELSE runState.state

roundedTwice(d, factor, reduction) ==
  IF d > 0 THEN ((roundScaled(d, factor, 10) * reduction) + 5) \div 10 ELSE d

scaledDeltaRoundedTwice(delta, unluck, special, config) ==
  IF ~unluck.applied THEN delta
  ELSE IF special.applied
       THEN [ k \in DOMAIN delta |->
                roundedTwice(delta[k], unluck.factor,
                             config.specialUnluck.scalingGainsReduction) ]
       ELSE scaleDelta(delta, unluck.factor, 1, 10)

\* the delta as applied: cut by the luck factor under Unluck, and by the
\* scaling-gains reduction as well under Special Unluck, rounded once
scaledDelta(delta, unluck, special, config) ==
  IF ~unluck.applied THEN delta
  ELSE IF special.applied
       THEN scaleDelta(delta, unluck.factor,
                       config.specialUnluck.scalingGainsReduction, 100)
       ELSE scaleDelta(delta, unluck.factor, 1, 10)

\* the state after the choice, cut by Special Unluck if it fired
newStateOf(postDelta, special, config) ==
  IF special.applied THEN applySpecialHaircut(postDelta, config) ELSE postDelta

\* return { newRunState, result }, with the argument as the call leaves it and
\* the intermediate values of the call
stepReturned(runState, config, unluck, special, scaled, postDelta, newState, computed, result) ==
  [ newRunState |-> [ state     |-> newState,
                      seed      |-> runState.seed,
                      lastMeter |-> result.meter,
                      stepCount |-> runState.stepCount + 1,
                      history   |-> appendHistory(runState.history, result) ],
    result      |-> result,
    argument    |-> [ state     |-> IF catchUpDue(runState)
                                    THEN applyRubberBandArgument(runState.state, config)
                                    ELSE runState.state,
                      seed      |-> runState.seed,
                      lastMeter |-> runState.lastMeter,
                      stepCount |-> runState.stepCount,
                      history   |-> historyArgument(runState.history, result) ],
    caughtUp    |-> catchUpDue(runState),
    applied     |-> scaled,
    postDelta   |-> postDelta,
    draws       |-> unluck.draws \o special.draws \o computed.draws,
    rng         |-> computed.rng ]

\* const result = computeMeter(effective, runState.lastMeter, rng, config),
\* with the Unluck fields of the step
stepMetered(runState, config, unluck, special, scaled, postDelta, newState, computed) ==
  stepReturned(runState, config, unluck, special, scaled, postDelta, newState,
               computed,
               [ meter                |-> computed.result.meter,
                 raw                  |-> computed.result.raw,
                 effective            |-> computed.result.effective,
                 momentum             |-> computed.result.momentum,
                 randomness           |-> computed.result.randomness,
                 rubberBand           |-> computed.result.rubberBand,
                 unluckApplied        |-> unluck.applied,
                 luckFactor           |-> unluck.factor,
                 specialUnluckApplied |-> special.applied ])

\* const effective = computeEffective(newState, config), then the meter
stepApplied(runState, config, unluck, special, scaled, postDelta, newState) ==
  stepMetered(runState, config, unluck, special, scaled, postDelta, newState,
              computeMeter(computeEffective(newState, config),
                           runState.lastMeter, special.rng, config))

\* const newState = applyChoice(currentState, delta)
stepScaled(runState, config, unluck, special, scaled, postDelta) ==
  stepApplied(runState, config, unluck, special, scaled, postDelta,
              newStateOf(postDelta, special, config))

stepLuck(runState, delta, config, unluck, special, scaled) ==
  stepScaled(runState, config, unluck, special, scaled,
             applyChoice(currentStateOf(runState, config), scaled))

stepRolled(runState, delta, chosenOption, config, unluck, special) ==
  stepLuck(runState, delta, config, unluck, special,
           scaledDelta(delta, unluck, special, config))

stepUnluck(runState, delta, chosenOption, config, unluck) ==
  stepRolled(runState, delta, chosenOption, config, unluck,
             rollSpecialUnluck(unluck.applied, runState.stepCount, chosenOption,
                               unluck.rng, config))

stepUpdate(runState, delta, chosenOption, config) ==
  stepUnluck(runState, delta, chosenOption, config,
             rollUnluck(stepGenerator(runState), config))

initializeRunState(seed) ==
  [ state     |-> [R |-> 0, U |-> 0, S |-> 0, C |-> 0, I |-> 0],
    seed      |-> seed,
    lastMeter |-> 0,
    stepCount |-> 0,
    history   |-> << >> ]

(***************************************************************************)
(* Inputs of the model.                                                    *)
(***************************************************************************)
MeterConfig(meter, luck) ==
  [ weights         |-> meter.weights,
    sigmoid         |-> meter.sigmoid,
    momentumBonus   |-> meter.momentumBonus,
    randomnessRange |-> meter.randomnessRange,
    rubberBand      |-> meter.rubberBand,
    unluck          |-> luck.unluck,
    specialUnluck   |-> luck.specialUnluck ]

\* the shipped configuration
CfgDefault == MeterConfig(DEFAULT_CONFIG, DEFAULT_UNLUCK)

\* the sigmoid and randomness defaults documented on MeterConfig
\* (mu 25, sigma 12, range [-3, +3]), Unluck forced off
CfgDocumented ==
  MeterConfig([DEFAULT_CONFIG EXCEPT !.sigmoid = [mu |-> 25, sigma |-> 12],
                                     !.randomnessRange = << -3, 3 >>],
              [DEFAULT_UNLUCK EXCEPT !.unluck.probability = 0])

\* the configuration of the Unluck tests: no momentum, no randomness,
\* Unluck and Special Unluck forced on
CfgForced ==
  MeterConfig([DEFAULT_CONFIG EXCEPT !.momentumBonus = 0,
                                     !.randomnessRange = << 0, 0 >>],
              [DEFAULT_UNLUCK EXCEPT !.unluck.probability = 10])

\* a low, noisy meter with Unluck at one half and a fixed factor 0.5
CfgStorm ==
  MeterConfig([DEFAULT_CONFIG EXCEPT !.sigmoid = [mu |-> 25, sigma |-> 12],
                                     !.randomnessRange = << -30, 30 >>],
              [DEFAULT_UNLUCK EXCEPT !.unluck = [probability |-> 5,
                                                 factorRange |-> << 5, 5 >>]])

Configs == { CfgDefault, CfgDocumented, CfgForced, CfgStorm }

Seeds == { 12345, 999 }

Choices ==
  { [delta |-> Delta(10, 4, 0, 0, -2),      option |-> "A"],
    [delta |-> Delta(0, 0, -5, 7, 4),       option |-> "B"],
    [delta |-> Delta(15, 15, 15, 15, -10),  option |-> "A"] }

(***************************************************************************)
(* The state machine.                                                      *)
(***************************************************************************)
Init ==
  /\ cfg \in Configs
  /\ \E seed \in Seeds :
       /\ run = initializeRunState(seed)
       /\ replay = initializeRunState(seed)
  /\ choices = << >>
  /\ results = << >>
  /\ gen = NoGenerator
  /\ last = NoCall
  /\ storage = NoItem
  /\ mounted = Fresh
  /\ panel = NoPanel
  /\ flow = Booted
  /\ loading = NoLoad

CallRecord(chain, runState, choice, out) ==
  [ called    |-> TRUE,
    chain     |-> chain,
    input     |-> runState,
    delta     |-> choice.delta,
    option    |-> choice.option,
    out       |-> out ]

\* The player's next choice is applied to the run.
Step ==
  /\ run.stepCount < MaxSteps
  /\ \E choice \in Choices :
       \E out \in { stepUpdate(run, choice.delta, choice.option, cfg) } :
         /\ run' = out.newRunState
         /\ choices' = Append(choices, choice)
         /\ results' = Append(results, out.result)
         /\ gen' = out.rng
         /\ last' = CallRecord("run", run, choice, out)
  /\ UNCHANGED << replay, cfg, storage, mounted, panel, flow, loading >>

\* The second chain applies the next of the recorded choices.
ReplayStep ==
  /\ replay.stepCount < Len(choices)
  /\ \E choice \in { choices[replay.stepCount + 1] } :
       \E out \in { stepUpdate(replay, choice.delta, choice.option, cfg) } :
         /\ replay' = out.newRunState
         /\ gen' = out.rng
         /\ last' = CallRecord("replay", replay, choice, out)
  /\ UNCHANGED << run, choices, results, cfg, storage, mounted, panel, flow, loading >>

Next == Step \/ ReplayStep

Spec == Init /\ [][Next]_vars

(***************************************************************************)
(* Runs that reach the Special Unluck step with a wide range of deltas.    *)
(***************************************************************************)
\* seeds of the Unluck and balance tests
GainSeeds == { 12345, 999, 424242, 13579, 1000, 1001, 1002, 1003 }

\* the choice of the steps before the Special Unluck step
WarmUp == [delta |-> Delta(10, 4, 0, 0, -2), option |-> "A"]

\* option B with every gain 1..15, next to a zero and a negative component
GainChoices ==
  { [delta |-> Delta(d, 16 - d, 0, 0 - d, d), option |-> "B"] : d \in 1..15 }

GainInit ==
  /\ cfg = CfgForced
  /\ \E seed \in GainSeeds :
       /\ run = initializeRunState(seed)
       /\ replay = initializeRunState(seed)
  /\ choices = << >>
  /\ results = << >>
  /\ gen = NoGenerator
  /\ last = NoCall
  /\ storage = NoItem
  /\ mounted = Fresh
  /\ panel = NoPanel
  /\ flow = Booted
  /\ loading = NoLoad

\* The next choice is applied to the run: a wide choice on the configured
\* Special Unluck step, the warm-up choice on the others.
GainStep ==
  /\ run.stepCount < MaxSteps
  /\ \E choice \in (IF run.stepCount + 1 = cfg.specialUnluck.step
                     THEN GainChoices ELSE { WarmUp }) :
       \E out \in { stepUpdate(run, choice.delta, choice.option, cfg) } :
         /\ run' = out.newRunState
         /\ choices' = Append(choices, choice)
         /\ results' = Append(results, out.result)
         /\ gen' = out.rng
         /\ last' = CallRecord("run", run, choice, out)
  /\ UNCHANGED << replay, cfg, storage, mounted, panel, flow, loading >>

GainSpec == GainInit /\ [][GainStep]_vars

(***************************************************************************)
(* Runs with Unluck forced off and randomness forced to 0.                 *)
(***************************************************************************)
\* the shipped configuration with randomnessRange [0, 0] and Unluck
\* probability 0
CfgQuiet ==
  MeterConfig([DEFAULT_CONFIG EXCEPT !.randomnessRange = << 0, 0 >>],
              [DEFAULT_UNLUCK EXCEPT !.unluck.probability = 0])

\* the same with momentumBonus 0, as cfgNo of the Unluck tests
CfgQuietFlat ==
  MeterConfig([DEFAULT_CONFIG EXCEPT !.momentumBonus = 0,
                                     !.randomnessRange = << 0, 0 >>],
              [DEFAULT_UNLUCK EXCEPT !.unluck.probability = 0])

QuietInit ==
  /\ cfg \in { CfgQuiet, CfgQuietFlat }
  /\ run = initializeRunState(12345)
  /\ replay = initializeRunState(12345)
  /\ choices = << >>
  /\ results = << >>
  /\ gen = NoGenerator
  /\ last = NoCall
  /\ storage = NoItem
  /\ mounted = Fresh
  /\ panel = NoPanel
  /\ flow = Booted
  /\ loading = NoLoad

QuietSpec == QuietInit /\ [][Next]_vars

(***************************************************************************)
(* The Scaling Meter panel: getMeterTier and getInsights.                  *)
(***************************************************************************)
getMeterTierExclusive(meter) ==
  IF meter > 85
  THEN [tier |-> "Breakout Trajectory", emoji |-> "unicorn", range |-> "85-100"]
  ELSE IF meter > 70
  THEN [tier |-> "Scaling Up", emoji |-> "rocket", range |-> "70-84"]
  ELSE IF meter > 50
  THEN [tier |-> "Gaining Steam", emoji |-> "zap", range |-> "50-69"]
  ELSE IF meter > 30
  THEN [tier |-> "Finding Fit", emoji |-> "seedling", range |-> "30-49"]
  ELSE [tier |-> "Scrappy Mode", emoji |-> "construction", range |-> "0-29"]

\* the emoji are written by their names
getMeterTier(meter) ==
  IF meter >= 85
  THEN [tier |-> "Breakout Trajectory", emoji |-> "unicorn", range |-> "85-100"]
  ELSE IF meter >= 70
  THEN [tier |-> "Scaling Up", emoji |-> "rocket", range |-> "70-84"]
  ELSE IF meter >= 50
  THEN [tier |-> "Gaining Steam", emoji |-> "zap", range |-> "50-69"]
  ELSE IF meter >= 30
  THEN [tier |-> "Finding Fit", emoji |-> "seedling", range |-> "30-49"]
  ELSE [tier |-> "Scrappy Mode", emoji |-> "construction", range |-> "0-29"]

\* effective values are kept in millionths
EffectiveScale == 1000000

\* const dimensions = [ { name, key, value }, ... ], in the order written
dimensionsOf(effective) ==
  << [name |-> "Revenue", key |-> "R", value |-> effective.R],
     [name |-> "User Growth", key |-> "U", value |-> effective.U],
     [name |-> "System Reliability", key |-> "S", value |-> effective.S],
     [name |-> "Customer Love", key |-> "C", value |-> effective.C],
     [name |-> "Investor Confidence", key |-> "I", value |-> effective.I] >>

\* d put into a descending sequence, behind the entries of the same value
RECURSIVE insertDescending(_, _)
insertDescending(sorted, d) ==
  IF sorted = << >> THEN << d >>
  ELSE IF Head(sorted).value - d.value < 0
       THEN << d >> \o sorted
       ELSE << Head(sorted) >> \o insertDescending(Tail(sorted), d)

\* dimensions.sort((a, b) => b.value - a.value): descending and stable
RECURSIVE sortDescending(_)
sortDescending(dimensions) ==
  IF dimensions = << >> THEN << >>
  ELSE insertDescending(sortDescending(SubSeq(dimensions, 1, Len(dimensions) - 1)),
                        dimensions[Len(dimensions)])

\* the bottleneck is null
NoBottleneck == [isNull |-> TRUE]

insightsFromStrictDelta(sorted, delta) ==
  [ drivers    |-> << sorted[1].name, sorted[2].name >>,
    bottleneck |-> IF /\ sorted[Len(sorted)].value < 10 * EffectiveScale
                      /\ delta[sorted[Len(sorted)].key] < 0
                   THEN [isNull |-> FALSE, name |-> sorted[Len(sorted)].name]
                   ELSE NoBottleneck ]

\* drivers and bottleneck from the sorted dimensions
insightsFrom(sorted, delta) ==
  [ drivers    |-> << sorted[1].name, sorted[2].name >>,
    bottleneck |-> IF /\ sorted[Len(sorted)].value < 10 * EffectiveScale
                      /\ delta[sorted[Len(sorted)].key] <= 0
                   THEN [isNull |-> FALSE, name |-> sorted[Len(sorted)].name]
                   ELSE NoBottleneck ]

getInsights(effective, delta) ==
  insightsFrom(sortDescending(dimensionsOf(effective)), delta)

\* every integer meter
Meters == 0..100

\* effective values below, at and above the bottleneck threshold
EffectiveValues == { 2 * EffectiveScale, 10 * EffectiveScale, 20 * EffectiveScale }

EffectiveStates == [ { "R", "U", "S", "C", "I" } -> EffectiveValues ]

\* the latest delta loses, keeps or gains on each dimension
InsightDeltas == [ { "R", "U", "S", "C", "I" } -> { -2, 0, 2 } ]

\* the panel is about to render a meter
MeterGiven(meter) == [shown |-> "meter", meter |-> meter]

\* the panel is about to render the last result and the last choice's delta
ResultGiven(effective, delta) ==
  [shown |-> "result", effective |-> effective, delta |-> delta]

\* const tierInfo = getMeterTier(currentMeter)
ShowTier ==
  /\ panel.shown = "meter"
  /\ panel' = [ shown    |-> "tier",
                meter    |-> panel.meter,
                tierInfo |-> getMeterTier(panel.meter) ]
  /\ UNCHANGED << run, replay, choices, results, cfg, gen, last, storage, mounted, flow, loading >>

\* const insights = getInsights(lastResult.effective, delta of the last choice)
ShowInsights ==
  /\ panel.shown = "result"
  /\ panel' = [ shown     |-> "insights",
                effective |-> panel.effective,
                delta     |-> panel.delta,
                insights  |-> getInsights(panel.effective, panel.delta) ]
  /\ UNCHANGED << run, replay, choices, results, cfg, gen, last, storage, mounted, flow, loading >>

PanelNext == ShowTier \/ ShowInsights

PanelInit ==
  /\ cfg = CfgDefault
  /\ run = initializeRunState(12345)
  /\ replay = initializeRunState(12345)
  /\ choices = << >>
  /\ results = << >>
  /\ gen = NoGenerator
  /\ last = NoCall
  /\ storage = NoItem
  /\ mounted = Fresh
  /\ flow = Booted
  /\ loading = NoLoad
  /\ \/ \E meter \in Meters : panel = MeterGiven(meter)
     \/ \E effective \in EffectiveStates, delta \in InsightDeltas :
          panel = ResultGiven(effective, delta)

PanelSpec == PanelInit /\ [][PanelNext]_vars

(***************************************************************************)
(* Persistence: saveToStorage, loadFromStorage and LOAD_FROM_STORAGE.      *)
(* A JSON text is kept as what JSON.parse reads from it: an object is the  *)
(* sequence of its << key, value >> members in key order, an array the     *)
(* sequence of its elements, an integer, a boolean or a string is itself.  *)
(***************************************************************************)
JsonNull == [json |-> "null"]

\* a number that may be null (luckFactor)
stringifyNullable(v) ==
  IF v = NoFactor THEN JsonNull ELSE [json |-> "number", value |-> v]

parseNullable(j) == IF j.json = "null" THEN NoFactor ELSE j.value

stringifyState(s) ==
  << << "R", s.R >>, << "U", s.U >>, << "S", s.S >>, << "C", s.C >>, << "I", s.I >> >>

stringifyResult(r) ==
  << << "meter", r.meter >>,
     << "raw", r.raw >>,
     << "effective", stringifyState(r.effective) >>,
     << "momentum", r.momentum >>,
     << "randomness", r.randomness >>,
     << "rubberBand", r.rubberBand >>,
     << "unluckApplied", r.unluckApplied >>,
     << "luckFactor", stringifyNullable(r.luckFactor) >>,
     << "specialUnluckApplied", r.specialUnluckApplied >> >>

stringifyChoice(c) ==
  << << "choice", c.option >>, << "delta", stringifyState(c.delta) >> >>

\* JSON.stringify({ ...runState, timestamp: Date.now(), version: '1.0' })
stringifyGameState(gameState, now) ==
  << << "state", stringifyState(gameState.state) >>,
     << "seed", gameState.seed >>,
     << "lastMeter", gameState.lastMeter >>,
     << "stepCount", gameState.stepCount >>,
     << "history", [i \in 1..Len(gameState.history) |->
                      stringifyResult(gameState.history[i])] >>,
     << "currentStep", gameState.currentStep >>,
     << "choices", [i \in 1..Len(gameState.choices) |->
                      stringifyChoice(gameState.choices[i])] >>,
     << "effective", stringifyState(gameState.effective) >>,
     << "timestamp", now >>,
     << "version", "1.0" >> >>

\* the object has the property
Has(object, key) == \E i \in 1..Len(object) : object[i][1] = key

\* object.key, for a property the object has
Get(object, key) ==
  object[CHOOSE i \in 1..Len(object) : object[i][1] = key][2]

parseState(j) ==
  [ R |-> Get(j, "R"), U |-> Get(j, "U"), S |-> Get(j, "S"),
    C |-> Get(j, "C"), I |-> Get(j, "I") ]

parseResult(j) ==
  [ meter                |-> Get(j, "meter"),
    raw                  |-> Get(j, "raw"),
    effective            |-> parseState(Get(j, "effective")),
    momentum             |-> Get(j, "momentum"),
    randomness           |-> Get(j, "randomness"),
    rubberBand           |-> Get(j, "rubberBand"),
    unluckApplied        |-> Get(j, "unluckApplied"),
    luckFactor           |-> parseNullable(Get(j, "luckFactor")),
    specialUnluckApplied |-> Get(j, "specialUnluckApplied") ]

\* the validation of loadFromStorage on the parsed data
isValidGameState(parsedData) ==
  /\ Has(parsedData, "currentStep")
  /\ Get(parsedData, "currentStep") >= 1
  /\ Get(parsedData, "currentStep") <= 5
  /\ Has(parsedData, "state")
  /\ \A k \in { "R", "U", "S", "C", "I" } : Has(Get(parsedData, "state"), k)
  /\ Has(parsedData, "seed")
  /\ Has(parsedData, "choices")
  /\ Has(parsedData, "effective")
  /\ Has(parsedData, "history")
  /\ \A i \in 1..Len(Get(parsedData, "history")) :
       Has(Get(parsedData, "history")[i], "meter")

\* saved data older than 7 days is stale (times in days)
isStale(parsedData, now) == now - Get(parsedData, "timestamp") > 7

loadedRunStateWithoutHistory(gameState) ==
  [ state     |-> parseState(Get(gameState, "state")),
    seed      |-> Get(gameState, "seed"),
    lastMeter |-> Get(gameState, "lastMeter"),
    stepCount |-> Get(gameState, "stepCount"),
    history   |-> << >> ]

\* LOAD_FROM_STORAGE: return action.gameState; the RunState that stepUpdate
\* reads from the loaded object
loadedRunState(gameState) ==
  [ state     |-> parseState(Get(gameState, "state")),
    seed      |-> Get(gameState, "seed"),
    lastMeter |-> Get(gameState, "lastMeter"),
    stepCount |-> Get(gameState, "stepCount"),
    history   |-> [i \in 1..Len(Get(gameState, "history")) |->
                     parseResult(Get(gameState, "history")[i])] ]

\* The GameState of the run: the RunState with the choices applied, the
\* effective state of the latest result and the step shown.
gameStateOf(runState, applied, currentStep) ==
  [ state       |-> runState.state,
    seed        |-> runState.seed,
    lastMeter   |-> runState.lastMeter,
    stepCount   |-> runState.stepCount,
    history     |-> runState.history,
    currentStep |-> currentStep,
    choices     |-> applied,
    effective   |-> IF Len(runState.history) = 0
                    THEN [R |-> 0, U |-> 0, S |-> 0, C |-> 0, I |-> 0]
                    ELSE runState.history[Len(runState.history)].effective ]

\* the step shown once n choices are applied: the step of the latest
\* choice, or the next one after ADVANCE_STEP
CurrentSteps(n) == { Max(1, n), Min(n + 1, 5) }

\* days between a save and the next mount
Elapsed == { 0, 8 }

\* saveToStorage of the first session, before the second one is mounted:
\* the item is written, or cleared when writing throws.
SaveToStorage ==
  /\ mounted = Fresh
  /\ \E currentStep \in CurrentSteps(run.stepCount), written \in BOOLEAN :
       storage' = IF written
                  THEN stringifyGameState(gameStateOf(run, choices, currentStep), 0)
                  ELSE NoItem
  /\ UNCHANGED << run, replay, choices, results, cfg, gen, last, mounted, panel, flow, loading >>

\* loadFromStorage on mount of the second session: with no item nothing is
\* loaded; valid data that is not stale is dispatched as LOAD_FROM_STORAGE,
\* anything else is removed and the session is RESET to a run with a
\* generated seed.
LoadFromStorage ==
  /\ mounted = Fresh
  /\ replay.stepCount = 0
  /\ \E now \in Elapsed :
       IF storage = NoItem
       THEN /\ mounted' = [how |-> "empty"]
            /\ UNCHANGED << replay, storage >>
       ELSE IF isValidGameState(storage) /\ ~isStale(storage, now)
       THEN /\ replay' = loadedRunState(storage)
            /\ mounted' = [how |-> "resumed", at |-> Get(storage, "stepCount")]
            /\ UNCHANGED storage
       ELSE /\ storage' = NoItem
            /\ mounted' = [how |-> "reset"]
            /\ \E seed \in Seeds : replay' = initializeRunState(seed)
  /\ UNCHANGED << run, choices, results, cfg, gen, last, panel, flow, loading >>

\* The second session applies the next recorded choice once its mount
\* effect has run.
ResumedStep == mounted # Fresh /\ ReplayStep

ResumeNext == Step \/ ResumedStep \/ SaveToStorage \/ LoadFromStorage

\* a run under the noisy low-meter configuration, where the catch-up flag,
\* lastMeter and Unluck all come into play
ResumeInit == Init /\ cfg = CfgStorm /\ run.seed = 999

ResumeSpec == ResumeInit /\ [][ResumeNext]_vars

(***************************************************************************)
(* The game: the page, the Start, Step, Feedback and Finale screens, the   *)
(* gameStateReducer and the stored run.  An event handler runs to its end  *)
(* and the page is rendered again before the next event is handled.  The   *)
(* GameState is run and choices with flow.currentStep; flow.event names    *)
(* the handler of the page that ran last.  The log of engine calls         *)
(* (results, gen, last) is not kept here.                                  *)
(***************************************************************************)
\* the deltas of the default pack, steps 1 to 5
DefaultPack ==
  << [id |-> 1, optionA |-> Delta(10, 4, 0, 0, -2), optionB |-> Delta(-3, 0, 0, 0, 10)],
     [id |-> 2, optionA |-> Delta(0, 8, 0, -2, 0),  optionB |-> Delta(0, -2, 0, 8, 0)],
     [id |-> 3, optionA |-> Delta(5, 6, -3, 0, 0),  optionB |-> Delta(0, -2, 0, 6, 4)],
     [id |-> 4, optionA |-> Delta(0, 0, 10, 0, 3),  optionB |-> Delta(0, 0, -5, 7, 4)],
     [id |-> 5, optionA |-> Delta(0, 6, 0, 5, 0),   optionB |-> Delta(8, 0, 0, -2, 3)] >>

\* contentPack.steps.find(step => step.id === currentStep), then the option
choiceDataOf(currentStep, choice) ==
  IF choice = "A" THEN DefaultPack[currentStep].optionA
                  ELSE DefaultPack[currentStep].optionB

isStepCompletedAlways(applied, currentStep) == FALSE

\* const isStepCompleted = runState.choices.length >= currentStep
isStepCompleted(applied, currentStep) == Len(applied) >= currentStep

\* useCanResume
canResume(applied, currentStep) == currentStep > 1 \/ Len(applied) > 0

\* a stored text JSON.parse throws on
MalformedJson == << << "SyntaxError", "{ invalid json }" >> >>

\* the stored text is the empty string
EmptyText == << << "text", "" >> >>

\* the object written when the item is absent and currentStep is set to 3
OnlyCurrentStep == << << "currentStep", 3 >> >>

\* the stored object with one member replaced
WithMember(object, key, value) ==
  [i \in 1..Len(object) |->
     IF object[i][1] = key THEN << key, value >> ELSE object[i]]

\* if (savedRunState): the item is there and is not the empty string
isTruthyItem(item) == item # NoItem /\ item # EmptyText

\* JSON.parse(savedRunState) returns
parses(item) == ~Has(item, "SyntaxError")

parseChoice(j) ==
  [delta |-> parseState(Get(j, "delta")), option |-> Get(j, "choice")]

\* the choices of the loaded GameState
loadedChoices(gameState) ==
  [i \in 1..Len(Get(gameState, "choices")) |->
     parseChoice(Get(gameState, "choices")[i])]

\* what the stored item would be after saveToStorage at the current state
savedNow == stringifyGameState(gameStateOf(run, choices, flow.currentStep), 0)

\* The effect of GameFlowManager on the GameState.  The effect calls
\* useRunState(), a hook, outside of any render: useContext throws there,
\* the catch block logs a warning, and neither the step validation nor the
\* navigation to the finale below the call is run.
hookCallThrows == TRUE

maxUnlockedStep(applied) == Min(Len(applied) + 1, 5)

gameFlowStep(applied, currentStep, gameState) ==
  IF hookCallThrows THEN currentStep
  ELSE IF gameState = "step" /\ currentStep > maxUnlockedStep(applied)
       THEN maxUnlockedStep(applied)
       ELSE currentStep

ResetKeepingChoices(gameState, event) ==
  /\ \E seed \in Seeds : run' = initializeRunState(seed)
  /\ choices' = choices
  /\ flow' = [gameState |-> gameState, currentStep |-> 1, event |-> event]

\* RESET: return initializeGameState(), on the screen given
Reset(gameState, event) ==
  /\ \E seed \in Seeds : run' = initializeRunState(seed)
  /\ choices' = << >>
  /\ flow' = [gameState |-> gameState, currentStep |-> 1, event |-> event]

resetRunKeepingItem(gameState, event) ==
  /\ storage' = storage
  /\ Reset(gameState, event)

\* resetRun: the stored item is removed and RESET dispatched
resetRun(gameState, event) ==
  /\ storage' = NoItem
  /\ Reset(gameState, event)

\* "Start New Journey" on the Start screen
HandleNewRun ==
  /\ flow.gameState = "start"
  /\ resetRun("step", "newRun")
  /\ UNCHANGED << replay, results, cfg, gen, last, mounted, panel, loading >>

\* "Resume" on the Start screen, rendered when canResume
HandleResume ==
  /\ flow.gameState = "start"
  /\ canResume(choices, flow.currentStep)
  /\ flow' = [ gameState   |-> "step",
               currentStep |-> gameFlowStep(choices, flow.currentStep, "step"),
               event       |-> "resume" ]
  /\ UNCHANGED << run, replay, choices, results, cfg, gen, last, storage, mounted, panel, loading >>

\* "Reset" on the Start screen, rendered when canResume, once confirmed
HandleReset ==
  /\ flow.gameState = "start"
  /\ canResume(choices, flow.currentStep)
  /\ resetRun("start", "reset")
  /\ UNCHANGED << replay, results, cfg, gen, last, mounted, panel, loading >>

appliedChoicesReplaced(applied, record) == << record >>

\* choices: [...state.choices, { choice: action.choice, delta: action.delta }]
appliedChoices(applied, record) == Append(applied, record)

\* handleChoiceSelect, by a click on an option or by a key: nothing is done
\* on a completed step; otherwise APPLY_CHOICE is dispatched and the page
\* goes to the feedback.
HandleChoiceSelect ==
  /\ flow.gameState = "step"
  /\ \E choice \in { "A", "B" } :
       IF isStepCompleted(choices, flow.currentStep)
       THEN /\ flow' = [flow EXCEPT !.event = "selectIgnored"]
            /\ UNCHANGED << run, choices >>
       ELSE \E out \in { stepUpdate(run, choiceDataOf(flow.currentStep, choice),
                                    choice, cfg) } :
              /\ run' = out.newRunState
              /\ choices' = appliedChoices(choices,
                                           [ delta  |-> choiceDataOf(flow.currentStep, choice),
                                             option |-> choice ])
              /\ flow' = [ gameState   |-> "feedback",
                           currentStep |-> flow.currentStep,
                           event       |-> "select" ]
  /\ UNCHANGED << replay, results, cfg, gen, last, storage, mounted, panel, loading >>

\* "Continue to Feedback" on the Step screen, rendered on a completed step
HandleAdvanceToFeedback ==
  /\ flow.gameState = "step"
  /\ isStepCompleted(choices, flow.currentStep)
  /\ flow' = [flow EXCEPT !.gameState = "feedback", !.event = "toFeedback"]
  /\ UNCHANGED << run, replay, choices, results, cfg, gen, last, storage, mounted, panel, loading >>

advanceStepStaying(currentStep) == currentStep

\* ADVANCE_STEP: currentStep: Math.min(state.currentStep + 1, 5)
advanceStep(currentStep) == Min(currentStep + 1, 5)

\* handleContinue of the Feedback screen, by the button, Enter or Space:
\* ADVANCE_STEP and back to the Step screen before step 5, the finale on it
HandleContinue ==
  /\ flow.gameState = "feedback"
  /\ flow' = IF flow.currentStep < 5
             THEN [ gameState   |-> "step",
                    currentStep |-> gameFlowStep(choices,
                                                 advanceStep(flow.currentStep), "step"),
                    event       |-> "continue" ]
             ELSE [flow EXCEPT !.gameState = "finale", !.event = "viewFinale"]
  /\ UNCHANGED << run, replay, choices, results, cfg, gen, last, storage, mounted, panel, loading >>

\* handleStartOver of the Finale screen: resetRun and the Start screen
HandleStartOver ==
  /\ flow.gameState = "finale"
  /\ resetRun("start", "startOver")
  /\ UNCHANGED << replay, results, cfg, gen, last, mounted, panel, loading >>

\* the debounced auto-save of the current GameState: the item is written,
\* or removed when writing throws
AutoSave ==
  /\ \E written \in BOOLEAN :
       storage' = IF written THEN savedNow ELSE NoItem
  /\ UNCHANGED << run, replay, choices, results, cfg, gen, last, mounted, panel, flow, loading >>

\* the texts written over the stored item that are no saved run
Tampered == { MalformedJson, EmptyText, OnlyCurrentStep }

\* The stored item is changed from outside the page while step 1 of a new
\* run is shown: to a text that is not JSON, to the empty text, or to what
\* it holds with currentStep set to 3.
Tamper ==
  /\ flow.gameState = "step"
  /\ flow.currentStep = 1
  /\ Len(choices) = 0
  /\ storage \notin Tampered
  /\ \E item \in Tampered \cup
                 { IF isTruthyItem(storage) /\ parses(storage)
                   THEN WithMember(storage, "currentStep", 3)
                   ELSE OnlyCurrentStep } :
       storage' = item
  /\ UNCHANGED << run, replay, choices, results, cfg, gen, last, mounted, panel, flow, loading >>

\* The page is loaded again: the provider starts from initializeGameState()
\* on the Start screen and its mount effect runs loadFromStorage.
Reload ==
  /\ \E now \in Elapsed :
       IF ~isTruthyItem(storage)
       THEN /\ Reset("start", "nothingStored")
            /\ UNCHANGED storage
       ELSE IF ~parses(storage) \/ ~isValidGameState(storage)
       THEN resetRun("start", "discarded")
       ELSE IF isStale(storage, now)
       THEN resetRun("start", "stale")
       ELSE /\ run' = loadedRunState(storage)
            /\ choices' = loadedChoices(storage)
            /\ flow' = [ gameState   |-> "start",
                         currentStep |-> Get(storage, "currentStep"),
                         event       |-> "loaded" ]
            /\ UNCHANGED storage
  /\ UNCHANGED << replay, results, cfg, gen, last, mounted, panel, loading >>

GameNext ==
  \/ HandleNewRun
  \/ HandleResume
  \/ HandleReset
  \/ HandleChoiceSelect
  \/ HandleAdvanceToFeedback
  \/ HandleContinue
  \/ HandleStartOver
  \/ AutoSave
  \/ Tamper
  \/ Reload

\* the page is opened with nothing stored, under the shipped configuration
GameInit == Init /\ cfg = CfgDefault

\* the player, the auto-save, and a stored item changed from outside
GameSpec == GameInit /\ [][GameNext]_vars

(***************************************************************************)
(* The gameStateReducer alone: INITIALIZE, APPLY_CHOICE, ADVANCE_STEP and  *)
(* RESET dispatched in any order.  flow.event is the type of the action    *)
(* dispatched last.                                                        *)
(***************************************************************************)
\* case 'INITIALIZE': return initializeGameState(action.seed)
Initialize ==
  /\ Reset(flow.gameState, "INITIALIZE")
  /\ UNCHANGED << replay, results, cfg, gen, last, storage, mounted, panel, loading >>

\* case 'APPLY_CHOICE', with the delta of either option of the current
\* step, whether the step has a choice applied or not
ApplyChoice ==
  /\ run.stepCount < MaxSteps
  /\ \E choice \in { "A", "B" } :
       \E out \in { stepUpdate(run, choiceDataOf(flow.currentStep, choice),
                                choice, cfg) } :
         /\ run' = out.newRunState
         /\ choices' = appliedChoices(choices,
                                      [ delta  |-> choiceDataOf(flow.currentStep, choice),
                                        option |-> choice ])
         /\ flow' = [ gameState   |-> flow.gameState,
                      currentStep |-> flow.currentStep,
                      event       |-> "APPLY_CHOICE" ]
  /\ UNCHANGED << replay, results, cfg, gen, last, storage, mounted, panel, loading >>

\* case 'ADVANCE_STEP'
AdvanceStep ==
  /\ flow' = [ gameState   |-> flow.gameState,
               currentStep |-> advanceStep(flow.currentStep),
               event       |-> "ADVANCE_STEP" ]
  /\ UNCHANGED << run, replay, choices, results, cfg, gen, last, storage, mounted, panel, loading >>

\* case 'RESET': return initializeGameState()
ResetState ==
  /\ Reset(flow.gameState, "RESET")
  /\ UNCHANGED << replay, results, cfg, gen, last, storage, mounted, panel, loading >>

ReducerNext == Initialize \/ ApplyChoice \/ AdvanceStep \/ ResetState

ReducerSpec == GameInit /\ [][ReducerNext]_vars


(***************************************************************************)
(* Content packs: validateContentPack and loadContentPackFromString.  A    *)
(* content text is kept as the syntax it is written in and the data it     *)
(* reads as; an object is the sequence of its << key, value >> members, a  *)
(* version is the sequence of its dot-separated numbers.                   *)
(***************************************************************************)
DeltaKeys == << "R", "U", "S", "C", "I" >>

\* DeltaSchema: every member given is an integer of -10..15
matchesDeltaSchema(delta) ==
  \A i \in 1..Len(DeltaKeys) :
     Has(delta, DeltaKeys[i]) => Get(delta, DeltaKeys[i]) \in -10..15

\* ChoiceSchema
matchesChoiceSchema(choice) ==
  /\ Has(choice, "label")
  /\ Has(choice, "body")
  /\ Has(choice, "delta")
  /\ matchesDeltaSchema(Get(choice, "delta"))

\* StepSchema
matchesStepSchema(step) ==
  /\ Has(step, "id")
  /\ Get(step, "id") \in 1..5
  /\ Has(step, "title")
  /\ Has(step, "scenario")
  /\ Has(step, "optionA")
  /\ matchesChoiceSchema(Get(step, "optionA"))
  /\ Has(step, "optionB")
  /\ matchesChoiceSchema(Get(step, "optionB"))

\* ContentPackSchema: id, a version of three numbers, title, exactly 5 steps
matchesContentPackSchema(data) ==
  /\ Has(data, "id")
  /\ Get(data, "id") # ""
  /\ Has(data, "version")
  /\ Len(Get(data, "version")) = 3
  /\ Has(data, "title")
  /\ Has(data, "steps")
  /\ Len(Get(data, "steps")) = 5
  /\ \A i \in 1..Len(Get(data, "steps")) :
        matchesStepSchema(Get(data, "steps")[i])

\* what the schema's parse returns for a delta: members not given are 0
parsedDelta(delta) ==
  [ i \in 1..Len(DeltaKeys) |->
      << DeltaKeys[i],
         IF Has(delta, DeltaKeys[i]) THEN Get(delta, DeltaKeys[i]) ELSE 0 >> ]

parsedChoice(choice) ==
  << << "label", Get(choice, "label") >>,
     << "body", Get(choice, "body") >>,
     << "delta", parsedDelta(Get(choice, "delta")) >> >>

parsedStep(step) ==
  << << "id", Get(step, "id") >>,
     << "title", Get(step, "title") >>,
     << "scenario", Get(step, "scenario") >>,
     << "optionA", parsedChoice(Get(step, "optionA")) >>,
     << "optionB", parsedChoice(Get(step, "optionB")) >> >>

\* what ContentPackSchema.parse returns for data that matches
parsedPack(data) ==
  << << "id", Get(data, "id") >>,
     << "version", Get(data, "version") >>,
     << "title", Get(data, "title") >>,
     << "steps", [ i \in 1..Len(Get(data, "steps")) |->
                     parsedStep(Get(data, "steps")[i]) ] >> >>

validateContentPackAccepting(data) == [threw |-> FALSE, pack |-> data]

\* validateContentPack: ContentPackSchema.parse(data), which throws a
\* ZodError on data that does not match
validateContentPack(data) ==
  IF matchesContentPackSchema(data)
  THEN [threw |-> FALSE, pack |-> parsedPack(data)]
  ELSE [threw |-> TRUE]

\* the text '{ invalid json }': not JSON, and in YAML a mapping of one key
BrokenText == [syntax |-> "broken", data |-> << << "invalid json", "null" >> >>]

\* a text that is neither JSON nor YAML, such as '{ "id": ['
UnclosedText == [syntax |-> "unclosed", data |-> << >>]

\* format === 'yaml' ? yaml.load(content) : JSON.parse(content)
parseAs(content, format) ==
  IF format = "json"
  THEN IF content.syntax = "json"
       THEN [threw |-> FALSE, data |-> content.data]
       ELSE [threw |-> TRUE]
  ELSE IF content.syntax = "unclosed"
       THEN [threw |-> TRUE]
       ELSE [threw |-> FALSE, data |-> content.data]

\* no fallbackPack argument
Undefined == << >>

\* the try block of loadContentPackFromString
parsedAndValidated(content, format) ==
  IF parseAs(content, format).threw
  THEN [threw |-> TRUE]
  ELSE validateContentPack(parseAs(content, format).data)

loadContentPackFromString(content, format, fallbackPack) ==
  IF ~parsedAndValidated(content, format).threw
  THEN [ threw    |-> FALSE,
         pack     |-> parsedAndValidated(content, format).pack,
         source   |-> "file",
         errors   |-> << >>,
         warnings |-> << >> ]
  ELSE IF fallbackPack # Undefined
  THEN [ threw    |-> FALSE,
         pack     |-> fallbackPack,
         source   |-> "fallback",
         errors   |-> << "Failed to parse content" >>,
         warnings |-> << "Using fallback content pack due to parsing errors" >> ]
  ELSE [ threw |-> TRUE, message |-> "Content parsing failed" ]

\* the data of a choice, a step and a pack as the tests write them
choiceData(delta) ==
  << << "label", "Option" >>, << "body", "Body" >>, << "delta", delta >> >>

stepData(id, delta) ==
  << << "id", id >>,
     << "title", "Step" >>,
     << "scenario", "Test scenario" >>,
     << "optionA", choiceData(delta) >>,
     << "optionB", choiceData(<< >>) >> >>

packData(id, version, titled, stepCount, delta) ==
  << << "id", id >>, << "version", version >> >>
  \o (IF titled THEN << << "title", "Test Pack" >> >> ELSE << >>)
  \o << << "steps", [k \in 1..stepCount |-> stepData(k, delta)] >> >>

\* deltas with members left out, at the ends of the range and outside it
PackDeltas ==
  { << >>,
    << << "R", 10 >>, << "U", 4 >>, << "S", 0 >>, << "C", 0 >>, << "I", -2 >> >>,
    << << "R", -10 >>, << "I", 15 >> >>,
    << << "R", -11 >> >>,
    << << "R", 20 >> >>,
    << << "U", -15 >> >> }

\* packs that match the schema and packs that miss it in one or more ways
PackDatas ==
  { packData(id, version, titled, stepCount, delta) :
      id \in { "test-pack", "" },
      version \in { << 1, 0, 0 >>, << 1, 0 >> },
      titled \in BOOLEAN,
      stepCount \in { 0, 5, 6 },
      delta \in PackDeltas }
  \cup { << << "id", "incomplete-pack" >>, << "version", << 1, 0, 0 >> >> >>,
         << >> }

Contents ==
  { [syntax |-> syntax, data |-> data] :
      syntax \in { "json", "yaml" }, data \in PackDatas }
  \cup { BrokenText, UnclosedText }

\* getDefaultPack(), as the tests hand it over for the fallback
FallbackPack ==
  parsedPack(packData("ai-cofounder-default", << 1, 0, 0 >>, TRUE, 5, << >>))

\* loadContentPackFromString is about to be called
LoadGiven(content, format, fallbackPack) ==
  [ phase |-> "given", content |-> content, format |-> format,
    fallbackPack |-> fallbackPack ]

\* the call of loadContentPackFromString
LoadContentPackFromString ==
  /\ loading.phase = "given"
  /\ loading' = [ phase        |-> "done",
                  content      |-> loading.content,
                  format       |-> loading.format,
                  fallbackPack |-> loading.fallbackPack,
                  result       |-> loadContentPackFromString(loading.content,
                                                             loading.format,
                                                             loading.fallbackPack) ]
  /\ UNCHANGED << run, replay, choices, results, cfg, gen, last, storage, mounted, panel, flow >>

PackNext == LoadContentPackFromString

PackInit ==
  /\ cfg = CfgDefault
  /\ run = initializeRunState(12345)
  /\ replay = initializeRunState(12345)
  /\ choices = << >>
  /\ results = << >>
  /\ gen = NoGenerator
  /\ last = NoCall
  /\ storage = NoItem
  /\ mounted = Fresh
  /\ panel = NoPanel
  /\ flow = Booted
  /\ \E content \in Contents, format \in { "json", "yaml" },
        fallbackPack \in { Undefined, FallbackPack } :
       loading = LoadGiven(content, format, fallbackPack)

PackSpec == PackInit /\ [][PackNext]_vars

(***************************************************************************)
(* Properties of the engine.                                               *)
(***************************************************************************)
\* the normalized, pre-momentum meter a result was computed from
Normalized(result) == sigmoidRound(result.raw, cfg.sigmoid.mu, cfg.sigmoid.sigma)

\* the latest call was given a RunState whose last result raised the
\* rubber-band flag by a meter below the threshold
Flagged ==
  /\ last.called
  /\ Len(last.input.history) > 0
  /\ last.input.history[Len(last.input.history)].meter < cfg.rubberBand.threshold

\* the bonus the latest call owes to System and to Customer
BonusS == IF Flagged /\ last.input.state.S <= last.input.state.C
          THEN cfg.rubberBand.bonus ELSE 0
BonusC == IF Flagged /\ last.input.state.S > last.input.state.C
          THEN cfg.rubberBand.bonus ELSE 0

C2_MeterInRange ==
  /\ run.lastMeter \in 0..100
  /\ replay.lastMeter \in 0..100
  /\ \A i \in 1..Len(run.history) : run.history[i].meter \in 0..100
  /\ \A i \in 1..Len(replay.history) : replay.history[i].meter \in 0..100
  /\ last.called => last.out.result.meter \in 0..100

C2_Witness ==
  /\ last.called
  /\ Normalized(last.out.result) + last.out.result.momentum
       + last.out.result.randomness > 100
  /\ last.out.newRunState.lastMeter = 100

\* C3: after n calls stepCount is n, history holds exactly the n results the
\* calls returned, in call order, and lastMeter is the meter of the last
\* history entry (0 when there is none).
C3_HistoryIsResults ==
  /\ run.stepCount = Len(choices)
  /\ Len(run.history) = run.stepCount
  /\ run.history = results
  /\ run.lastMeter = IF run.stepCount = 0 THEN 0
                     ELSE run.history[Len(run.history)].meter
  /\ Len(replay.history) = replay.stepCount
  /\ replay.lastMeter = IF replay.stepCount = 0 THEN 0
                        ELSE replay.history[Len(replay.history)].meter

C3_Witness ==
  /\ run.stepCount >= 3
  /\ results[1] # results[2]
  /\ results[2] # results[3]

\* C4: the momentum bonus is added exactly when the normalized meter is
\* strictly greater than the stored previous meter; on equality or decrease
\* the momentum is 0 and the meter is the clamped sum of the normalized
\* meter and the randomness alone.
C4_MomentumIffIncrease ==
  last.called =>
    LET r == last.out.result
        n == Normalized(r)
    IN  /\ (n > last.input.lastMeter) => (r.momentum = cfg.momentumBonus)
        /\ (n <= last.input.lastMeter) => (r.momentum = 0)
        /\ r.meter = Max(0, Min(100, n + r.momentum + r.randomness))

C4_Witness ==
  /\ last.called
  /\ cfg.momentumBonus > 0
  /\ Normalized(last.out.result) = last.input.lastMeter
  /\ last.out.result.momentum = 0

\* C5 as stated: after a result below the threshold, the state the next
\* call produces has exactly one of System or Customer higher by the bonus
\* than a no-catch-up application of the same delta would give (the lower
\* one, System when equal).
C5_AsStated ==
  Flagged =>
    LET applied == last.out.applied
        plain   == [ R |-> last.input.state.R + applied.R,
                     U |-> last.input.state.U + applied.U,
                     S |-> last.input.state.S + applied.S,
                     C |-> last.input.state.C + applied.C,
                     I |-> last.input.state.I + applied.I ]
        without == IF last.out.result.specialUnluckApplied
                   THEN applySpecialHaircut(plain, cfg) ELSE plain
        with    == last.out.newRunState.state
    IN  /\ with.S - without.S = BonusS
        /\ with.C - without.C = BonusC

\* C5 (amended): after a result below the threshold, the next call applies
\* its delta to a state in which exactly one of System or Customer is higher
\* by the bonus (the lower one, System when equal); the resulting state
\* shows exactly that difference unless Special Unluck fires in the call,
\* whose haircut is taken on the totals, bonus included.
C5_CatchUp ==
  Flagged =>
    LET applied == last.out.applied
        post    == last.out.postDelta
    IN  /\ post.S - (last.input.state.S + applied.S) = BonusS
        /\ post.C - (last.input.state.C + applied.C) = BonusC
        /\ BonusS + BonusC = cfg.rubberBand.bonus
        /\ ~last.out.result.specialUnluckApplied
             => last.out.newRunState.state = post
        /\ last.out.result.specialUnluckApplied
             => last.out.newRunState.state = applySpecialHaircut(post, cfg)

C5_Witness ==
  /\ Flagged
  /\ last.input.state.S = last.input.state.C
  /\ last.out.newRunState.state.S = last.input.state.S + last.delta.S
                                      + cfg.rubberBand.bonus


\* C6: within one call the draws come from the per-step generator in a
\* fixed order: the Unluck trigger first, the Unluck factor second and only
\* if Unluck fired, and the meter's randomness last; the meter calculation
\* draws exactly once, whichever momentum or clamp branch is taken.
C6_DrawOrder ==
  last.called =>
    LET d == last.out.draws
        n == Len(d)
    IN  /\ n >= 2
        /\ \A i \in 1..n :
             /\ d[i].state = DrawState(mulberry32(last.input.seed
                                                    + last.input.stepCount), i)
             /\ (d[i].kind = "unluckTrigger") <=> (i = 1)
             /\ (d[i].kind = "unluckFactor") => (i = 2)
             /\ (d[i].kind = "randomness") <=> (i = n)
        /\ last.out.result.unluckApplied <=> (d[2].kind = "unluckFactor")

C6_Witness ==
  /\ last.called
  /\ last.out.result.unluckApplied
  /\ last.out.result.momentum > 0
  /\ Len(last.out.draws) = 3
  /\ \E i \in 1..Len(run.history) :
       ~run.history[i].unluckApplied /\ run.history[i].momentum = 0

\* the Special Unluck conditions of the latest call
SpecialConditions ==
  /\ last.out.result.unluckApplied
  /\ last.input.stepCount + 1 = cfg.specialUnluck.step
  /\ last.option = cfg.specialUnluck.choice

\* C7: Special Unluck is recorded as applied only when, in the same call,
\* regular Unluck fired, the 1-indexed step is the configured step and the
\* chosen option is the configured option; otherwise it is not recorded and
\* no haircut is applied, even at special probability 1.0.
C7_SpecialOnlyWhenEligible ==
  last.called =>
    /\ last.out.result.specialUnluckApplied => SpecialConditions
    /\ ~SpecialConditions =>
         /\ ~last.out.result.specialUnluckApplied
         /\ last.out.newRunState.state = last.out.postDelta

C7_Witness ==
  /\ last.called
  /\ cfg.specialUnluck.probability = 10
  /\ last.out.result.specialUnluckApplied
  /\ \E i \in 1..Len(last.input.history) :
       /\ last.input.history[i].unluckApplied
       /\ ~last.input.history[i].specialUnluckApplied

\* a factor lies within a range given in tenths
FactorInRange(factor, range) ==
  /\ factor[1] >= range[1]
  /\ \/ factor[1] < range[2]
     \/ factor[1] = range[2] /\ factor[2] = 0 /\ factor[3] = 0

DimensionNames == { "R", "U", "S", "C", "I" }

\* C8 as stated: when regular Unluck fires the factor lies within the
\* configured range, every strictly positive delta component d is applied
\* as round(d * factor) and every other component is applied unchanged.
C8_AsStated ==
  (last.called /\ last.out.result.unluckApplied) =>
    /\ FactorInRange(last.out.result.luckFactor, cfg.unluck.factorRange)
    /\ \A k \in DimensionNames :
         last.out.applied[k] =
           IF last.delta[k] > 0
           THEN roundScaled(last.delta[k], last.out.result.luckFactor, 10)
           ELSE last.delta[k]

\* C8 (amended): when regular Unluck fires the factor lies within the
\* configured range and every zero or negative component is applied
\* unchanged; every strictly positive component d is applied as
\* round(d * factor) unless Special Unluck fires in the same call.
C8_UnluckScaling ==
  (last.called /\ last.out.result.unluckApplied) =>
    /\ FactorInRange(last.out.result.luckFactor, cfg.unluck.factorRange)
    /\ \A k \in DimensionNames :
         /\ last.delta[k] <= 0 => last.out.applied[k] = last.delta[k]
         /\ (last.delta[k] > 0 /\ ~last.out.result.specialUnluckApplied) =>
              last.out.applied[k] =
                roundScaled(last.delta[k], last.out.result.luckFactor, 10)
    /\ last.out.postDelta.R = last.input.state.R + last.out.applied.R
    /\ last.out.postDelta.U = last.input.state.U + last.out.applied.U
    /\ last.out.postDelta.S = last.input.state.S + BonusS + last.out.applied.S
    /\ last.out.postDelta.C = last.input.state.C + BonusC + last.out.applied.C
    /\ last.out.postDelta.I = last.input.state.I + last.out.applied.I

C8_Witness ==
  /\ last.called
  /\ last.out.result.unluckApplied
  /\ ~last.out.result.specialUnluckApplied
  /\ last.out.result.luckFactor[1] > cfg.unluck.factorRange[1]
  /\ last.out.result.luckFactor[1] < cfg.unluck.factorRange[2]
  /\ last.delta.R > 0 /\ last.out.applied.R < last.delta.R
  /\ last.delta.I < 0 /\ last.delta.S = 0
  /\ last.out.newRunState.state.I = last.input.state.I + last.delta.I

\* C9: whenever Unluck does not fire, the state after the call is the
\* catch-up-adjusted prior state plus the incoming delta, dimension by
\* dimension.
C9_PlainAddition ==
  (last.called /\ ~last.out.result.unluckApplied) =>
    LET new == last.out.newRunState.state
    IN  /\ new.R = last.input.state.R + last.delta.R
        /\ new.U = last.input.state.U + last.delta.U
        /\ new.S = last.input.state.S + BonusS + last.delta.S
        /\ new.C = last.input.state.C + BonusC + last.delta.C
        /\ new.I = last.input.state.I + last.delta.I

C9_Witness ==
  /\ last.called
  /\ cfg.unluck.probability = 0
  /\ ~last.out.result.unluckApplied
  /\ BonusC > 0
  /\ last.delta.C > 0 /\ last.delta.S < 0

ExtendsByOne(h1, h2) ==
  /\ Len(h2) = Len(h1) + 1
  /\ \A i \in 1..Len(h1) : h2[i] = h1[i]

\* C11: history is append-only: every stepUpdate call leaves the previous
\* entries where they were, unchanged in every field, and adds exactly one
\* entry at the end; no step of the program changes a history otherwise.
C11_AppendOnly ==
  [][ /\ (run' # run) => ExtendsByOne(run.history, run'.history)
      /\ (replay' # replay) => ExtendsByOne(replay.history, replay'.history)
      /\ (last' # last) =>
           /\ ExtendsByOne(last'.input.history, last'.out.newRunState.history)
           /\ last'.out.newRunState.history[Len(last'.input.history) + 1]
                = last'.out.result ]_vars

C11_Witness ==
  /\ last.called
  /\ last.chain = "run"
  /\ Len(run.history) >= 3
  /\ run.history[1].rubberBand
  /\ ~run.history[Len(run.history)].rubberBand
  /\ ExtendsByOne(last.input.history, run.history)

DrawCount(n) ==
  2 + (IF run.history[n + 1].unluckApplied THEN 1 ELSE 0)
    + (IF specialEligible(run.history[n + 1].unluckApplied, n,
                          choices[n + 1].option, cfg) THEN 1 ELSE 0)

\* the generator of the n-th call on the run
GeneratorOfStep(n) == stepGenerator([seed |-> run.seed, stepCount |-> n])

\* the generator states the n-th call on the run drew from
ConsumedStates(n) ==
  { DrawState(GeneratorOfStep(n), i) : i \in 1..DrawCount(n) }

\* C13: the generators of two different steps of one run are distinct, and
\* no draw consumed in one step comes from the generator state of a draw
\* consumed in another step of that run.
C13_StepsDrawApart ==
  /\ \A n, m \in 0..(run.stepCount - 1) :
       (n # m) =>
         /\ GeneratorOfStep(n) # GeneratorOfStep(m)
         /\ ConsumedStates(n) \cap ConsumedStates(m) = {}
  /\ (last.called /\ last.chain = "run") =>
       { last.out.draws[i].state : i \in 1..Len(last.out.draws) }
         = ConsumedStates(last.input.stepCount)

C13_Witness ==
  /\ run.stepCount >= 4
  /\ last.called /\ last.chain = "run"
  /\ \E n, m \in 0..(run.stepCount - 1) : DrawCount(n) = 4 /\ DrawCount(m) = 2

\* y is Math.round(x * (1 - reduction)) for a reduction in tenths
IsRoundedCut(y, x, reduction) ==
  /\ (10 * y) - 5 <= x * (10 - reduction)
  /\ x * (10 - reduction) < (10 * y) + 5

\* U, C and I of the latest call's new state are the independently rounded
\* cuts of their post-delta values
TotalsCut ==
  /\ IsRoundedCut(last.out.newRunState.state.U, last.out.postDelta.U,
                  cfg.specialUnluck.usersReduction)
  /\ IsRoundedCut(last.out.newRunState.state.C, last.out.postDelta.C,
                  cfg.specialUnluck.customersReduction)
  /\ IsRoundedCut(last.out.newRunState.state.I, last.out.postDelta.I,
                  cfg.specialUnluck.investorsReduction)

\* C14 as stated: when Special Unluck fires U, C and I are the rounded cuts
\* of their post-delta values, and R and S are their prior value plus only
\* their own applied delta component.
C14_AsStated ==
  (last.called /\ last.out.result.specialUnluckApplied) =>
    /\ TotalsCut
    /\ last.out.newRunState.state.R = last.input.state.R + last.out.applied.R
    /\ last.out.newRunState.state.S = last.input.state.S + last.out.applied.S

\* C14 (amended): when Special Unluck fires U, C and I are the rounded cuts
\* of their post-delta values, each rounded on its own, R is its prior value
\* plus its applied delta component, and S is its prior value plus its
\* applied delta component plus the catch-up bonus when the call owes it
\* to System.
C14_SpecialHaircut ==
  (last.called /\ last.out.result.specialUnluckApplied) =>
    /\ TotalsCut
    /\ last.out.newRunState.state.R = last.input.state.R + last.out.applied.R
    /\ last.out.newRunState.state.S
         = last.input.state.S + BonusS + last.out.applied.S

C14_Witness ==
  /\ last.called
  /\ last.out.result.specialUnluckApplied
  /\ last.out.postDelta.U > 0 /\ last.out.postDelta.U % 2 = 1
  /\ last.out.postDelta.I < 0
  /\ last.out.postDelta.C > 0
  /\ last.out.newRunState.state.R > 0
  /\ last.out.newRunState.state.S # 0

\* y is Math.round(d * factor * reduction) for an exact factor and a
\* reduction in tenths: 100 y - 50 <= d * reduction * factor < 100 y + 50,
\* with factor = factor[1] + (a fraction below 1) tenths
IsRoundedGain(y, d, factor, reduction) ==
  LET n        == d * reduction
      fraction == ((n * factor[2]) + ((n * factor[3]) \div Half)) \div Half
  IN  /\ (100 * y) - 50 - (n * factor[1]) <= fraction
      /\ fraction < (100 * y) + 50 - (n * factor[1])

C16_HaircutNeverRaises ==
  (last.called /\ last.out.result.specialUnluckApplied) =>
    /\ last.out.newRunState.state.U <= last.out.postDelta.U
    /\ last.out.newRunState.state.C <= last.out.postDelta.C
    /\ last.out.newRunState.state.I <= last.out.postDelta.I

\* the configuration with another rubber-band threshold
WithThreshold(config, threshold) ==
  [config EXCEPT !.rubberBand.threshold = threshold]

\* the same call under a threshold that flags no meter (0) or every meter (101)
Reflagged(threshold) ==
  stepUpdate(last.input, last.delta, last.option, WithThreshold(cfg, threshold))

\* two results equal in every field but the rubber-band flag
SameButFlag(r1, r2) ==
  [r1 EXCEPT !.rubberBand = FALSE] = [r2 EXCEPT !.rubberBand = FALSE]

\* C17: a result's rubber-band flag is true exactly when its clamped meter
\* is below the configured threshold, and the flag changes nothing else of
\* the call: with the flag forced off or on, the other fields of the result
\* and the state produced are the same.
C17_FlagBelowThreshold ==
  /\ \A i \in 1..Len(run.history) :
       run.history[i].rubberBand <=>
         (run.history[i].meter < cfg.rubberBand.threshold)
  /\ last.called =>
       /\ last.out.result.rubberBand <=>
            (last.out.result.meter < cfg.rubberBand.threshold)
       /\ \A threshold \in { 0, 101 } :
            /\ Reflagged(threshold).result.rubberBand = (threshold = 101)
            /\ SameButFlag(Reflagged(threshold).result, last.out.result)
            /\ Reflagged(threshold).newRunState.state
                 = last.out.newRunState.state

C17_Witness ==
  /\ Len(run.history) >= 3
  /\ run.history[1].rubberBand
  /\ ~run.history[2].rubberBand
  /\ last.called /\ last.out.result.rubberBand
  /\ last.out.result.meter > 0

\* the five tiers with their inclusive bands
TierBands ==
  { [lo |-> 0,  hi |-> 29,  tier |-> "Scrappy Mode",        range |-> "0-29"],
    [lo |-> 30, hi |-> 49,  tier |-> "Finding Fit",         range |-> "30-49"],
    [lo |-> 50, hi |-> 69,  tier |-> "Gaining Steam",       range |-> "50-69"],
    [lo |-> 70, hi |-> 84,  tier |-> "Scaling Up",          range |-> "70-84"],
    [lo |-> 85, hi |-> 100, tier |-> "Breakout Trajectory", range |-> "85-100"] }

BandsOf(meter) == { band \in TierBands : band.lo <= meter /\ meter <= band.hi }

\* C18: getMeterTier gives every integer meter in [0, 100] the tier of the
\* one inclusive band, of [0,29], [30,49], [50,69], [70,84], [85,100], that
\* holds the meter: no meter is without a band and none is in two.
C18_TiersPartition ==
  (panel.shown = "tier") =>
    /\ Cardinality(BandsOf(panel.meter)) = 1
    /\ \A band \in BandsOf(panel.meter) :
         /\ panel.tierInfo.tier = band.tier
         /\ panel.tierInfo.range = band.range

C18_Witness ==
  /\ panel.shown = "tier"
  /\ panel.meter = 85
  /\ panel.tierInfo.tier = "Breakout Trajectory"

\* the place of a dimension in the order the dimensions are listed in
Place(k) == CHOOSE i \in 1..5 : << "R", "U", "S", "C", "I" >>[i] = k

NameOf(k) ==
  CASE k = "R" -> "Revenue"
    [] k = "U" -> "User Growth"
    [] k = "S" -> "System Reliability"
    [] k = "C" -> "Customer Love"
    [] k = "I" -> "Investor Confidence"

\* k ranks lowest: every other dimension has a greater effective value, or
\* the same value and an earlier place in the list
RanksLowest(k, effective) ==
  \A j \in DimensionNames \ { k } :
    \/ effective[j] > effective[k]
    \/ effective[j] = effective[k] /\ Place(j) < Place(k)

FirstQuietStep ==
  /\ last.called
  /\ last.input = initializeRunState(12345)
  /\ last.input.state = Delta(0, 0, 0, 0, 0)
  /\ last.delta = Delta(10, 4, 0, 0, -2)
  /\ cfg.unluck.probability = 0
  /\ cfg.randomnessRange = << 0, 0 >>

\* C20 as stated: the scenario's call produces state {R:10, U:4, S:0, C:0,
\* I:-2} and a result whose momentum is 0.
C20_AsStated ==
  FirstQuietStep =>
    /\ last.out.newRunState.state = Delta(10, 4, 0, 0, -2)
    /\ last.out.result.momentum = 0

\* C20: from initializeRunState(12345) with an all-zero state, one
\* stepUpdate with delta {R:10, U:4, I:-2}, Unluck forced off and randomness
\* forced to 0 produces state exactly {R:10, U:4, S:0, C:0, I:-2} and a
\* result whose momentum is the configured momentum bonus (3 by default),
\* its meter before momentum being above the previous meter 0.
C20_FirstStep ==
  FirstQuietStep =>
    /\ ~last.out.result.unluckApplied
    /\ last.out.result.randomness = 0
    /\ last.out.newRunState.state = Delta(10, 4, 0, 0, -2)
    /\ last.out.result.meter - last.out.result.momentum > last.input.lastMeter
    /\ last.out.result.momentum = cfg.momentumBonus
    /\ (cfg.momentumBonus = DEFAULT_CONFIG.momentumBonus) =>
         (last.out.result.momentum = 3)

C20_Witness ==
  /\ FirstQuietStep
  /\ last.out.newRunState.state = Delta(10, 4, 0, 0, -2)
  /\ last.out.result.momentum = 3
  /\ last.out.result.randomness = 0
  /\ ~last.out.result.unluckApplied

\* the sum of one component of the deltas of the first n applied choices
RECURSIVE SumOfDeltas(_, _, _)
SumOfDeltas(applied, k, n) ==
  IF n = 0 THEN 0 ELSE SumOfDeltas(applied, k, n - 1) + applied[n].delta[k]

\* Unluck has fired in none of the steps of the run
UnluckNeverFired ==
  \A i \in 1..Len(run.history) : ~run.history[i].unluckApplied

\* the results of the run, other than the latest, whose rubber-band flag is set
FlaggedBeforeLatest ==
  { i \in 1..(Len(run.history) - 1) : run.history[i].rubberBand }

\* C27: after any sequence of stepUpdate calls from initializeRunState in
\* which Unluck never fires, R, U and I are the sums of the applied deltas'
\* components, and S + C is the sum of the applied S and C components plus
\* the bonus times the number of results other than the latest whose
\* rubber-band flag is set; no bonus is added on the first step.
C27_StateIsSumOfDeltas ==
  UnluckNeverFired =>
    /\ \A k \in { "R", "U", "I" } :
          run.state[k] = SumOfDeltas(choices, k, Len(choices))
    /\ run.state.S + run.state.C =
          SumOfDeltas(choices, "S", Len(choices))
          + SumOfDeltas(choices, "C", Len(choices))
          + cfg.rubberBand.bonus * Cardinality(FlaggedBeforeLatest)
    /\ Len(choices) = 1 => run.state = choices[1].delta

\* a run without Unluck in which the bonus has been added twice
C27_Witness ==
  /\ UnluckNeverFired
  /\ Len(run.history) >= 3
  /\ Cardinality(FlaggedBeforeLatest) >= 2
  /\ cfg.rubberBand.bonus > 0

(***************************************************************************)
(* Properties of the game.                                                 *)
(***************************************************************************)
\* the step of the pack an applied choice belongs to: the ten deltas of the
\* pack are pairwise different
stepOfChoice(record) ==
  CHOOSE id \in 1..Len(DefaultPack) :
    record.delta \in { DefaultPack[id].optionA, DefaultPack[id].optionB }

\* C21: the selected option's effects are applied exactly once for each step
\* of a run: no two of the applied choices belong to the same step, so a
\* further selection for a step that has its choice has applied nothing.
C21_AppliedOnce ==
  \A i, j \in 1..Len(choices) :
     i # j => stepOfChoice(choices[i]) # stepOfChoice(choices[j])

\* C22: the player is never on a step beyond the first incomplete one:
\* whenever the step screen is shown, currentStep is at most the number of
\* applied choices plus one, also after a stored run whose currentStep was
\* set ahead of its choices has been loaded.
C22_NoSkipping ==
  flow.gameState = "step" => flow.currentStep <= Len(choices) + 1

\* the feedback is acknowledged in this step
Acknowledged ==
  /\ flow.gameState = "feedback"
  /\ flow'.event \in { "continue", "viewFinale" }

\* C23: acknowledging the feedback of step k < 5 advances currentStep to
\* k + 1 and returns to the step screen; acknowledging the feedback of step 5
\* navigates to the finale view.  The applied choices and the run state are
\* left as they are.
C23_Acknowledge ==
  [][ Acknowledged =>
        /\ flow.currentStep < 5 => /\ flow'.gameState = "step"
                                   /\ flow'.currentStep = flow.currentStep + 1
        /\ flow.currentStep = 5 => /\ flow'.gameState = "finale"
                                   /\ flow'.currentStep = 5
        /\ UNCHANGED << run, choices >>
    ]_vars

\* the finale has been reached by acknowledging the feedback of step 5, the
\* feedbacks of steps 1 to 4 having been acknowledged before
C23_Witness ==
  /\ flow.gameState = "finale"
  /\ flow.event = "viewFinale"
  /\ flow.currentStep = 5
  /\ Len(choices) = 5

\* the page has been loaded again in this step
Loads == { "nothingStored", "discarded", "stale", "loaded" }

Reloaded == flow'.event \in Loads /\ flow.event \notin Loads

\* JSON.parse throws on the stored text, or the parsed object fails the
\* validation of loadFromStorage
Corrupted(item) ==
  /\ isTruthyItem(item)
  /\ ~parses(item) \/ ~isValidGameState(item)

IsFreshRun(runState) ==
  /\ runState.state = [R |-> 0, U |-> 0, S |-> 0, C |-> 0, I |-> 0]
  /\ runState.lastMeter = 0
  /\ runState.stepCount = 0
  /\ runState.history = << >>

ResetRunCalled ==
  /\ flow'.event \in { "newRun", "reset", "startOver" }
  /\ flow' # flow

C29_ChoicesWithinStep ==
  /\ flow.currentStep \in 1..5
  /\ Len(choices) <= flow.currentStep
  /\ Len(choices) <= 5
  /\ run.stepCount = Len(choices)

\* the fifth choice has been applied on step 5
C29_Witness ==
  /\ flow.currentStep = 5
  /\ Len(choices) = 5
  /\ flow.event = "select"

\* C30: the finale view is entered only when all five steps have an applied
\* choice, with choices.length = 5 and currentStep = 5, after the feedback of
\* step 5: no sequence of start, resume, choice, continue and keyboard events
\* reaches the finale earlier.
C30_FinaleAfterFiveChoices ==
  flow.gameState = "finale" =>
    /\ Len(choices) = 5
    /\ flow.currentStep = 5
    /\ \A id \in 1..5 : \E i \in 1..Len(choices) : stepOfChoice(choices[i]) = id

(***************************************************************************)
(* Properties of the content pack loader.                                  *)
(***************************************************************************)
\* the content given does not parse in the format given, or what it reads
\* as does not match the schema
FailsToLoad ==
  \/ loading.format = "json" /\ loading.content.syntax # "json"
  \/ loading.format = "yaml" /\ loading.content.syntax = "unclosed"
  \/ ~matchesContentPackSchema(loading.content.data)

\* C26: loading content that fails to parse or fails schema validation
\* returns the supplied fallback pack with source 'fallback' and a recorded
\* error, and throws only when no fallback pack was supplied; a pack that
\* fails validation is never returned as the loaded pack.
C26_FallbackOnFailure ==
  loading.phase = "done" =>
    /\ loading.result.threw <=>
         (FailsToLoad /\ loading.fallbackPack = Undefined)
    /\ (FailsToLoad /\ loading.fallbackPack # Undefined) =>
         /\ loading.result.source = "fallback"
         /\ loading.result.pack = loading.fallbackPack
         /\ Len(loading.result.errors) > 0
    /\ (~loading.result.threw /\ loading.result.source # "fallback") =>
         /\ ~FailsToLoad
         /\ matchesContentPackSchema(loading.result.pack)

\* a pack whose only fault is a delta out of range has been given with a
\* fallback, and the fallback has been returned
C26_Witness ==
  /\ loading.phase = "done"
  /\ loading.content.syntax = "json"
  /\ loading.format = "json"
  /\ loading.content.data =
       packData("test-pack", << 1, 0, 0 >>, TRUE, 5, << << "R", 20 >> >>)
  /\ loading.fallbackPack = FallbackPack
  /\ loading.result.source = "fallback"

(***************************************************************************)
(* Properties of the gameStateReducer.                                     *)
(***************************************************************************)
\* choices.length = history.length = stepCount
LengthsAgree ==
  /\ Len(choices) = Len(run.history)
  /\ Len(run.history) = run.stepCount

\* APPLY_CHOICE leaves currentStep as it is; ADVANCE_STEP changes
\* currentStep and nothing else
ReducerFrames ==
  /\ (flow'.event = "APPLY_CHOICE") =>
        ( /\ flow'.currentStep = flow.currentStep
          /\ Len(choices') = Len(choices) + 1 )
  /\ (flow'.event = "ADVANCE_STEP") =>
        ( /\ run' = run
          /\ choices' = choices
          /\ flow'.gameState = flow.gameState
          /\ flow'.currentStep = Min(flow.currentStep + 1, 5) )

\* C28: after any sequence of INITIALIZE, APPLY_CHOICE, ADVANCE_STEP and
\* RESET actions, choices.length = history.length = stepCount; APPLY_CHOICE
\* leaves currentStep unchanged and ADVANCE_STEP changes nothing but
\* currentStep.
C28_ReducerKeepsLengths == []LengthsAgree /\ [][ReducerFrames]_vars

\* choices have been applied with steps advanced in between and before
C28_Witness ==
  /\ flow.event = "APPLY_CHOICE"
  /\ flow.currentStep = 4
  /\ Len(choices) = 2
  /\ run.stepCount = 2

====
